---- MODULE Spec2Model ----
(***************************************************************************)
(* ERA5-Land extractor: the two worker programs (era5_polygon_worker.py,   *)
(* era5_worker.py) and the hosts that launch them (the dialog and the      *)
(* Processing algorithm), as a state machine over worker processes, the    *)
(* files they share and the dialog's polling callback.                     *)
(***************************************************************************)
EXTENDS Integers, Sequences, FiniteSets, TLC

\* ------------------------------------------------------------------ bounds
NRuns == 2          \* worker invocations considered
MaxDay == 2         \* calendar days 1..MaxDay of one month

Runs == 1..NRuns
Days == 1..MaxDay

\* ------------------------------------------------- static configuration
\* The variables a host can tick, in list order (a slice of ERA5_VARIABLES).
ERA5_VARIABLES == <<"2m_temperature", "snowfall">>
\* The hours a host can tick, in list order (a slice of the 24 check boxes).
HostHours == <<"00", "12">>

\* VARIABLE_NAME_MAP.get(name, name): long identifier -> NetCDF short code.
VARIABLE_NAME_MAP(name) ==
    CASE name = "2m_temperature" -> "t2m"
      [] name = "snowfall"       -> "sf"
      [] name = "snow_melt"      -> "smlt"
      [] name = "snowmelt"       -> "smlt"
      [] OTHER                   -> name

\* VARIABLE_REVERSE_MAP.get(name, name): NetCDF short code -> long identifier;
\* of two long identifiers with one short code the dict keeps the later one.
VARIABLE_REVERSE_MAP(name) ==
    CASE name = "t2m"  -> "2m_temperature"
      [] name = "sf"   -> "snowfall"
      [] name = "smlt" -> "snow_melt"
      [] OTHER         -> name

\* ------------------------------------------------------ string helpers
\* A command-line string is a sequence of chunks: whole names and ",".
RECURSIVE Join(_)
Join(list) ==
    IF list = <<>> THEN <<>>
    ELSE IF Len(list) = 1 THEN <<list[1]>>
    ELSE <<list[1], ",">> \o Join(Tail(list))

\* str.split(","): the pieces between commas; "" yields one empty piece.
RECURSIVE SplitFrom(_, _)
SplitFrom(s, cur) ==
    IF s = <<>> THEN <<cur>>
    ELSE IF Head(s) = "," THEN <<cur>> \o SplitFrom(Tail(s), "")
    ELSE SplitFrom(Tail(s), Head(s))

Split(s) == SplitFrom(s, "")

\* int(h) of an hour string; -1 stands for ValueError.
HourInt(h) ==
    CASE h = "00" -> 0
      [] h = "12" -> 12
      [] OTHER    -> -1

\* All sub-lists of a list, order kept (what a set of ticked boxes yields).
RECURSIVE SubLists(_)
SubLists(list) ==
    IF list = <<>> THEN {<<>>}
    ELSE LET rest == SubLists(Tail(list))
         IN rest \cup {<<Head(list)>> \o l : l \in rest}

Range(f) == {f[i] : i \in DOMAIN f}

\* pd.date_range(start, end): empty when start > end.
DateRange(start, end) == {d \in Days : start <= d /\ d <= end}

\* The time axis of a dataset: every day at every carried hour, ascending.
RECURSIVE DayRow(_, _)
DayRow(d, hs) ==
    IF hs = {} THEN <<>>
    ELSE LET h == CHOOSE x \in hs : \A y \in hs : x <= y
         IN <<(<<d, h>>)>> \o DayRow(d, hs \ {h})

RECURSIVE TimeAxis(_, _)
TimeAxis(days, hrs) ==
    IF days = {} \/ hrs = {} THEN <<>>
    ELSE LET d == CHOOSE x \in days : \A y \in days : x <= y
         IN DayRow(d, hrs) \o TimeAxis(days \ {d}, hrs)

\* ------------------------------------------------------------- datasets
\* What the provider can put into the downloaded file.  vars: the names the
\* file exposes; times: its time axis; overlap: some grid cell has a
\* positive-area intersection with the region; readable: xarray can open it.
DatasetVarSets == {{"t2m", "sf"}, {"t2m"}, {"snowfall"}}
DatasetHourSets == {{0, 12}, {0}}

\* The point worker reads every variable the file holds, whatever its name.
PointDatasets(days) ==
    {[readable |-> TRUE, vars |-> {"t2m", "sf"}, times |-> TimeAxis(days, hs),
      overlap |-> TRUE, coords |-> {"valid_time"}] : hs \in DatasetHourSets}

\* coords: the time coordinates of the file, "time" in files of the older
\* provider format and "valid_time" in the newer one.
TimedDatasets(days) ==
    {[readable |-> TRUE, vars |-> v, times |-> TimeAxis(days, hs), overlap |-> ov,
      coords |-> IF hs = {0} THEN {"time"} ELSE {"valid_time"}] :
        v \in DatasetVarSets, hs \in DatasetHourSets, ov \in BOOLEAN}

\* Files with no time coordinate under either name.
UntimedDatasets ==
    {[readable |-> TRUE, vars |-> v, times |-> <<>>, overlap |-> ov, coords |-> {}] :
        v \in {{"t2m"}, {"snowfall"}}, ov \in BOOLEAN}

GoodDatasets(days) == TimedDatasets(days) \cup UntimedDatasets

BadDataset == [readable |-> FALSE, vars |-> {}, times |-> <<>>, overlap |-> FALSE,
               coords |-> {}]

NoFile == [exists |-> FALSE, writer |-> 0, data |-> BadDataset]

OutDirs == {"out"}
Scripts == {"polygons", "points"}
NcPaths == {<<k, o, s, e>> : k \in Scripts, o \in OutDirs, s \in Days, e \in Days}

\* ------------------------------------------------------------ requests
\* The coordinate reference systems a polygon file may carry; "none" is a
\* file without one (a shapefile without .prj).
FileCrs == {"EPSG:4326", "EPSG:32719", "none"}

\* One invocation a user makes: through the dialog, through the Processing
\* algorithm, or by running a worker script directly.
NoReq == [launcher |-> "none", layer |-> "none", variables |-> <<>>, hours |-> <<>>,
          output_dir |-> "", start |-> 1, end |-> 1, format |-> "raster", fileOk |-> FALSE,
          crs |-> "none"]

Formats(layer) == IF layer = "polygons" THEN {"raster", "vector"} ELSE {"raster"}

HostRequests(l) ==
    UNION {{[launcher |-> l, layer |-> ly, variables |-> vs, hours |-> hs,
             output_dir |-> od, start |-> s, end |-> e, format |-> f, fileOk |-> ok,
             crs |-> "EPSG:4326"] :
               vs \in SubLists(ERA5_VARIABLES), hs \in SubLists(HostHours),
               od \in {"", "out"}, s \in Days, e \in Days, f \in Formats(ly),
               ok \in BOOLEAN} : ly \in {"none", "points", "polygons"}}

\* Direct invocation: --vars and --hours are arbitrary strings, "" included.
CliRequests ==
    UNION {{[launcher |-> "cli", layer |-> ly, variables |-> Join(vs), hours |-> Join(hs),
             output_dir |-> "out", start |-> s, end |-> e, format |-> f, fileOk |-> ok,
             crs |-> "EPSG:4326"] :
               vs \in SubLists(ERA5_VARIABLES), hs \in SubLists(HostHours),
               s \in Days, e \in Days, f \in Formats(ly), ok \in BOOLEAN} :
           ly \in Scripts}

NoArgv == [script |-> "none", fileOk |-> FALSE, start |-> 1, end |-> 1, hours |-> <<>>,
           vars |-> <<>>, out |-> "", format |-> "raster", crs |-> "none"]

\* --------------------------------------------------------------- state
VARIABLES
    req,        \* req[r]: the invocation r the user makes
    host,       \* host[r]: what the launching host reported for r
    argv,       \* argv[r]: command line of worker process r
    pc,         \* pc[r]: position of worker process r
    hours,      \* hours[r]: args.hours.split(",")
    variables,  \* variables[r]: args.vars.split(",")
    days,       \* days[r]: the days of pd.date_range(start, end)
    polygons,   \* polygons[r]: the polygons of run r, by coordinate reference system
    nc_path,    \* nc_path[r]: temporary dataset path of run r
    requests,   \* requests[r]: retrieval requests issued by r, in order
    ncFiles,    \* temporary dataset files on disk, by path
    outFiles,   \* artifact files on disk, completely written
    partFiles,  \* artifact files on disk whose write was cut short
    ds,         \* ds[r]: dataset handle of r
    vi,         \* vi[r]: index of the variable being processed
    ti,         \* ti[r]: index of the timestamp being processed
    exc,        \* exc[r]: exception raised in r ("" = none)
    fin,        \* fin[r]: what the finally block of r did
    exit,       \* exit[r]: exit status, -1 while running
    count,      \* count[r]: raster_count / vector_count
    gdal,       \* gdal[r]: whether osgeo.gdal works in process r, once tried
    out,        \* out[r]: lines r has printed
    dlg,        \* the dialog object
    project,    \* layers loaded into the QGIS project
    grid        \* the arrays of one variable's pass, cell by cell

vars == <<req, host, argv, pc, hours, variables, days, nc_path, requests, ncFiles,
          outFiles, partFiles, ds, vi, ti, exc, fin, exit, count, gdal, out, dlg,
          project, grid, polygons>>

NoPolygons == [crs |-> "none"]

NoDs == [open |-> FALSE, opened |-> FALSE, writer |-> 0, data |-> BadDataset]
NoFin == [ran |-> FALSE, closed |-> FALSE, removed |-> FALSE, removeFailed |-> FALSE]

Dlg0 == [process |-> 0, timer |-> FALSE, cb |-> "idle", rd |-> 0,
         run_button |-> TRUE, progress_bar |-> FALSE, current_mode |-> "",
         final_csv_path |-> <<>>, output_rasters |-> <<>>, output_vectors |-> <<>>,
         message |-> "", loaded |-> {}, finished |-> 0]

RunInit(reqs) ==
    /\ req \in reqs
    /\ host = [r \in Runs |-> "none"]
    /\ argv = [r \in Runs |-> NoArgv]
    /\ pc = [r \in Runs |-> "idle"]
    /\ hours = [r \in Runs |-> <<>>]
    /\ variables = [r \in Runs |-> <<>>]
    /\ days = [r \in Runs |-> {}]
    /\ polygons = [r \in Runs |-> NoPolygons]
    /\ nc_path = [r \in Runs |-> <<>>]
    /\ requests = [r \in Runs |-> <<>>]
    /\ ncFiles = [p \in NcPaths |-> NoFile]
    /\ outFiles = {}
    /\ partFiles = {}
    /\ ds = [r \in Runs |-> NoDs]
    /\ vi = [r \in Runs |-> 0]
    /\ ti = [r \in Runs |-> 0]
    /\ exc = [r \in Runs |-> ""]
    /\ fin = [r \in Runs |-> NoFin]
    /\ exit = [r \in Runs |-> -1]
    /\ count = [r \in Runs |-> 0]
    /\ gdal = [r \in Runs |-> "untried"]
    /\ out = [r \in Runs |-> <<>>]
    /\ dlg = Dlg0
    /\ project = {}

NoGrid == [pc |-> "none"]

InitWith(reqs) == RunInit(reqs) /\ grid = NoGrid

\* One invocation, by any launcher.
Init ==
    InitWith({[r \in Runs |-> IF r = 1 THEN q ELSE NoReq] :
                q \in HostRequests("dialog") \cup HostRequests("algorithm") \cup CliRequests})

Line(tag, path) == [tag |-> tag, path |-> path]

\* ----------------------------------------------------------- launchers
WorkerVars == <<hours, variables, days, nc_path, requests, ncFiles, outFiles,
                partFiles, ds, vi, ti, exc, fin, exit, count, gdal, out, grid, polygons>>

Spawn(r, a) ==
    /\ argv' = [argv EXCEPT ![r] = a]
    /\ pc' = [pc EXCEPT ![r] = "load"]

Reject(r) ==
    /\ host' = [host EXCEPT ![r] = "rejected"]
    /\ pc' = [pc EXCEPT ![r] = "rejected"]
    /\ UNCHANGED argv

\* The command line both hosts build: lists joined with ",".
HostArgv(q) ==
    [script |-> q.layer, fileOk |-> TRUE, start |-> q.start, end |-> q.end,
     hours |-> Join(q.hours), vars |-> Join(q.variables), out |-> q.output_dir,
     format |-> IF q.layer = "polygons" THEN q.format ELSE "raster", crs |-> q.crs]

\* ERA5ExtractorDialog.run, run_points_extraction / run_polygon_extraction,
\* execute_process.
DialogRun(r) ==
    LET q == req[r] IN
    /\ pc[r] = "idle" /\ q.launcher = "dialog"
    /\ dlg.run_button
    /\ IF q.layer = "none" \/ q.variables = <<>> \/ q.hours = <<>> \/ q.output_dir = ""
          \/ ~q.fileOk
       THEN Reject(r) /\ UNCHANGED dlg
       ELSE \E started \in BOOLEAN :
              IF started
              THEN /\ Spawn(r, HostArgv(q))
                   /\ host' = [host EXCEPT ![r] = "running"]
                   /\ dlg' = [dlg EXCEPT !.current_mode = q.layer,
                                         !.output_rasters = <<>>,
                                         !.output_vectors = <<>>,
                                         !.process = r, !.rd = 0,
                                         !.loaded = {}, !.finished = 0,
                                         !.progress_bar = TRUE,
                                         !.run_button = FALSE,
                                         !.timer = TRUE]
              ELSE /\ Reject(r)
                   /\ dlg' = [dlg EXCEPT !.current_mode = q.layer,
                                         !.output_rasters = <<>>,
                                         !.output_vectors = <<>>,
                                         !.progress_bar = FALSE,
                                         !.run_button = TRUE]
    /\ UNCHANGED <<req, project, WorkerVars>>

\* ERA5Algorithm.processAlgorithm, process_points / process_polygons up to
\* the start of the worker.
AlgorithmRun(r) ==
    LET q == req[r] IN
    /\ pc[r] = "idle" /\ q.launcher = "algorithm"
    /\ IF q.layer = "none" \/ q.output_dir = "" \/ q.variables = <<>> \/ q.hours = <<>>
          \/ ~q.fileOk
       THEN Reject(r)
       ELSE Spawn(r, HostArgv(q)) /\ host' = [host EXCEPT ![r] = "running"]
    /\ UNCHANGED <<req, dlg, project, WorkerVars>>

\* python era5_polygon_worker.py / era5_worker.py ... typed by hand.
CliRun(r) ==
    LET q == req[r] IN
    /\ pc[r] = "idle" /\ q.launcher = "cli"
    /\ Spawn(r, [script |-> q.layer, fileOk |-> q.fileOk, start |-> q.start,
                 end |-> q.end, hours |-> q.hours, vars |-> q.variables,
                 out |-> q.output_dir, format |-> q.format, crs |-> q.crs])
    /\ host' = [host EXCEPT ![r] = "cli"]
    /\ UNCHANGED <<req, dlg, project, WorkerVars>>

\* ------------------------------------------------------ polygon worker
HostVars == <<req, host, argv, dlg, project>>

Emit(r, lines) == out' = [out EXCEPT ![r] = out[r] \o lines]

\* An exception nothing catches: the traceback is printed, exit status 1.
Die(r, e) ==
    /\ exc' = [exc EXCEPT ![r] = e]
    /\ exit' = [exit EXCEPT ![r] = 1]
    /\ pc' = [pc EXCEPT ![r] = "exited"]

\* An exception raised inside the try block: the except clause prints it and
\* re-raises, the finally block runs next.
Raise(r, e) ==
    /\ exc' = [exc EXCEPT ![r] = e]
    /\ pc' = [pc EXCEPT ![r] = "finally"]

NcPath(a) == <<a.script, a.out, a.start, a.end>>

ArtifactPath(a, name, t, ext) == <<a.out, name, t[1], t[2], ext>>

\* main, "1. Cargar poligonos" to the download area, without reprojection.
LoadInputs_nocrs(r) ==
    /\ pc[r] = "load" /\ argv[r].script = "polygons"
    /\ LET c == argv[r].crs IN
         IF ~argv[r].fileOk \/ c = "none"
         THEN /\ Die(r, "InputError")
              /\ Emit(r, <<Line("Cargando", <<>>), Line("Traceback", <<>>)>>)
              /\ UNCHANGED <<hours, variables, days, polygons>>
         ELSE /\ polygons' = [polygons EXCEPT ![r] = [crs |-> c]]
              /\ hours' = [hours EXCEPT ![r] = Split(argv[r].hours)]
              /\ variables' = [variables EXCEPT ![r] = Split(argv[r].vars)]
              /\ days' = [days EXCEPT ![r] = DateRange(argv[r].start, argv[r].end)]
              /\ pc' = [pc EXCEPT ![r] = "retrieve"]
              /\ Emit(r, <<Line("Cargando", <<>>)>>)
              /\ UNCHANGED <<exc, exit>>
    /\ UNCHANGED <<HostVars, partFiles, grid, nc_path, requests, ncFiles, outFiles, ds, vi, ti, fin, count, gdal>>

\* main, "1. Cargar poligonos" to the download area.  read_file fails on a
\* file it cannot read; a file whose CRS is not EPSG:4326 goes through to_crs,
\* which raises on a file that carries no CRS.
LoadInputs(r) ==
    /\ pc[r] = "load" /\ argv[r].script = "polygons"
    /\ LET c == argv[r].crs IN
         IF ~argv[r].fileOk \/ c = "none"
         THEN /\ Die(r, "InputError")
              /\ Emit(r, <<Line("Cargando", <<>>), Line("Traceback", <<>>)>>)
              /\ UNCHANGED <<hours, variables, days, polygons>>
         ELSE /\ polygons' = [polygons EXCEPT ![r] =
                     [crs |-> IF c # "EPSG:4326" THEN "EPSG:4326" ELSE c]]
              /\ hours' = [hours EXCEPT ![r] = Split(argv[r].hours)]
              /\ variables' = [variables EXCEPT ![r] = Split(argv[r].vars)]
              /\ days' = [days EXCEPT ![r] = DateRange(argv[r].start, argv[r].end)]
              /\ pc' = [pc EXCEPT ![r] = "retrieve"]
              /\ Emit(r, <<Line("Cargando", <<>>)>>)
              /\ UNCHANGED <<exc, exit>>
    /\ UNCHANGED <<HostVars, partFiles, grid, nc_path, requests, ncFiles, outFiles, ds, vi, ti, fin, count, gdal>>

\* Retrieve with one automatic retry after a failed request.
Retrieve_retry(r) ==
    LET path == NcPath(argv[r])
        request == [variable |-> variables[r], day |-> days[r], time |-> hours[r],
                    start |-> argv[r].start, end |-> argv[r].end, target |-> path]
    IN
    /\ pc[r] = "retrieve" /\ argv[r].script = "polygons"
    /\ nc_path' = [nc_path EXCEPT ![r] = path]
    /\ requests' = [requests EXCEPT ![r] = Append(requests[r], request)]
    /\ \/ \E d \in GoodDatasets(days[r]) \cup {BadDataset} :
            /\ ncFiles' = [ncFiles EXCEPT ![path] =
                              [exists |-> TRUE, writer |-> r, data |-> d]]
            /\ pc' = [pc EXCEPT ![r] = "open"]
            /\ Emit(r, <<Line("Solicitando", <<>>), Line("Descarga completada", <<>>)>>)
            /\ UNCHANGED <<exc, exit>>
       \/ /\ requests[r] = <<>>
          /\ UNCHANGED <<ncFiles, pc, exc, exit, out>>
       \/ /\ requests[r] # <<>>
          /\ UNCHANGED ncFiles
          /\ Die(r, "RetrievalError")
          /\ Emit(r, <<Line("Solicitando", <<>>), Line("Traceback", <<>>)>>)
    /\ UNCHANGED <<HostVars, partFiles, grid, polygons, hours, variables, days, outFiles, ds, vi, ti, fin, count, gdal>>

\* main, "3. Descarga de datos ERA5": c.retrieve(...) into nc_path.
Retrieve(r) ==
    LET path == NcPath(argv[r])
        request == [variable |-> variables[r], day |-> days[r], time |-> hours[r],
                    start |-> argv[r].start, end |-> argv[r].end, target |-> path]
    IN
    /\ pc[r] = "retrieve" /\ argv[r].script = "polygons"
    /\ nc_path' = [nc_path EXCEPT ![r] = path]
    /\ requests' = [requests EXCEPT ![r] = Append(requests[r], request)]
    /\ \/ \E d \in GoodDatasets(days[r]) \cup {BadDataset} :
            /\ ncFiles' = [ncFiles EXCEPT ![path] =
                              [exists |-> TRUE, writer |-> r, data |-> d]]
            /\ pc' = [pc EXCEPT ![r] = "open"]
            /\ Emit(r, <<Line("Solicitando", <<>>), Line("Descarga completada", <<>>)>>)
            /\ UNCHANGED <<exc, exit>>
       \/ \E partial \in BOOLEAN :
            /\ ncFiles' = IF partial
                          THEN [ncFiles EXCEPT ![path] =
                                  [exists |-> TRUE, writer |-> r, data |-> BadDataset]]
                          ELSE ncFiles
            /\ Die(r, "RetrievalError")
            /\ Emit(r, <<Line("Solicitando", <<>>), Line("Traceback", <<>>)>>)
    /\ UNCHANGED <<HostVars, partFiles, grid, polygons, hours, variables, days, outFiles, ds, vi, ti, fin, count, gdal>>

\* main, xr.open_dataset(nc_path) at the head of the try block.
OpenDataset(r) ==
    LET f == ncFiles[nc_path[r]] IN
    /\ pc[r] = "open"
    /\ IF f.exists /\ f.data.readable
       THEN /\ ds' = [ds EXCEPT ![r] = [open |-> TRUE, opened |-> TRUE,
                                        writer |-> f.writer, data |-> f.data]]
            /\ pc' = [pc EXCEPT ![r] = "align"]
            /\ Emit(r, <<Line("Variables disponibles", <<>>)>>)
            /\ UNCHANGED exc
       ELSE /\ Raise(r, "DecodeError")
            /\ Emit(r, <<Line("Error", <<>>)>>)
            /\ UNCHANGED ds
    /\ UNCHANGED <<HostVars, partFiles, grid, polygons, hours, variables, days, nc_path, requests, ncFiles,
                   outFiles, vi, ti, fin, exit, count, gdal>>

\* time_coord = 'time' if 'time' in ds.coords else 'valid_time'
time_coord(data) == IF "time" \in data.coords THEN "time" ELSE "valid_time"

\* [int(h) for h in hours]
selected_hours_ints(hs) == {HourInt(hs[i]) : i \in DOMAIN hs}

\* main, longitude / latitude alignment, time coordinate, mask, hour list.
AlignAndMask(r) ==
    /\ pc[r] = "align"
    /\ IF \E i \in DOMAIN hours[r] : HourInt(hours[r][i]) = -1
       THEN /\ Raise(r, "ValueError")
            /\ Emit(r, <<Line("Mascara", <<>>), Line("Error", <<>>)>>)
            /\ UNCHANGED <<vi, count>>
       ELSE /\ vi' = [vi EXCEPT ![r] = 1]
            /\ count' = [count EXCEPT ![r] = 0]
            /\ pc' = [pc EXCEPT ![r] = "var"]
            /\ Emit(r, <<Line("Mascara", <<>>)>>)
            /\ UNCHANGED exc
    /\ UNCHANGED <<HostVars, partFiles, grid, polygons, hours, variables, days, nc_path, requests, ncFiles,
                   outFiles, ds, ti, fin, exit, gdal>>

\* The name under which the dataset holds a requested variable.
VarFound(long, data_vars) ==
    VARIABLE_NAME_MAP(long) \in data_vars \/ long \in data_vars

VarToUse(long, data_vars) ==
    IF VARIABLE_NAME_MAP(long) \in data_vars THEN VARIABLE_NAME_MAP(long) ELSE long

\* NextVariable with "break" in place of "continue" for a missing variable.
NextVariable_break(r) ==
    /\ pc[r] = "var"
    /\ IF vi[r] > Len(variables[r])
       THEN /\ pc' = [pc EXCEPT ![r] = "finally"]
            /\ Emit(r, <<Line("Proceso finalizado", <<count[r]>>)>>)
            /\ UNCHANGED <<vi, ti>>
       ELSE IF ~VarFound(variables[r][vi[r]], ds[r].data.vars)
       THEN /\ vi' = [vi EXCEPT ![r] = Len(variables[r]) + 1]
            /\ Emit(r, <<Line("no encontrada", <<variables[r][vi[r]]>>)>>)
            /\ UNCHANGED <<pc, ti>>
       ELSE /\ pc' = [pc EXCEPT ![r] = IF argv[r].format = "vector"
                                       THEN "vector" ELSE "raster"]
            /\ ti' = [ti EXCEPT ![r] = 1]
            /\ Emit(r, <<Line("Procesando", <<variables[r][vi[r]]>>)>>)
            /\ UNCHANGED vi
    /\ UNCHANGED <<HostVars, partFiles, grid, polygons, hours, variables, days, nc_path, requests, ncFiles,
                   outFiles, ds, exc, fin, exit, count, gdal>>

\* main, head of "for var_long_name in variables" and the closing summary.
NextVariable(r) ==
    /\ pc[r] = "var"
    /\ IF vi[r] > Len(variables[r])
       THEN /\ pc' = [pc EXCEPT ![r] = "finally"]
            /\ Emit(r, <<Line("Proceso finalizado", <<count[r]>>)>>)
            /\ UNCHANGED <<vi, ti>>
       ELSE IF ~VarFound(variables[r][vi[r]], ds[r].data.vars)
       THEN /\ vi' = [vi EXCEPT ![r] = vi[r] + 1]
            /\ Emit(r, <<Line("no encontrada", <<variables[r][vi[r]]>>)>>)
            /\ UNCHANGED <<pc, ti>>
       ELSE /\ pc' = [pc EXCEPT ![r] = IF argv[r].format = "vector"
                                       THEN "vector" ELSE "raster"]
            /\ ti' = [ti EXCEPT ![r] = 1]
            /\ Emit(r, <<Line("Procesando", <<variables[r][vi[r]]>>)>>)
            /\ UNCHANGED vi
    /\ UNCHANGED <<HostVars, partFiles, grid, polygons, hours, variables, days, nc_path, requests, ncFiles,
                   outFiles, ds, exc, fin, exit, count, gdal>>

\* RasterIter without the hour filter.
RasterIter_nofilter(r) ==
    LET times == ds[r].data.times IN
    /\ pc[r] = "raster"
    /\ IF time_coord(ds[r].data) \notin ds[r].data.coords
       THEN /\ Raise(r, "KeyError")
            /\ Emit(r, <<Line("Error", <<>>)>>)
            /\ UNCHANGED <<vi, ti>>
       ELSE IF ti[r] > Len(times)
       THEN /\ vi' = [vi EXCEPT ![r] = vi[r] + 1]
            /\ pc' = [pc EXCEPT ![r] = "var"]
            /\ UNCHANGED <<ti, exc, out>>
       ELSE \E extracted \in BOOLEAN :
              IF extracted
              THEN /\ pc' = [pc EXCEPT ![r] = "save"]
                   /\ UNCHANGED <<vi, ti, exc, out>>
              ELSE /\ Raise(r, "ExtractError")
                   /\ Emit(r, <<Line("Error", <<>>)>>)
                   /\ UNCHANGED <<vi, ti>>
    /\ UNCHANGED <<HostVars, partFiles, grid, polygons, hours, variables, days, nc_path, requests,
                   ncFiles, outFiles, ds, fin, exit, count, gdal>>

\* main, one pass of "for time_idx, time_val": hour filter, extraction,
\* clip and mask.
RasterIter(r) ==
    LET times == ds[r].data.times IN
    /\ pc[r] = "raster"
    /\ IF time_coord(ds[r].data) \notin ds[r].data.coords
       THEN /\ Raise(r, "KeyError")
            /\ Emit(r, <<Line("Error", <<>>)>>)
            /\ UNCHANGED <<vi, ti>>
       ELSE IF ti[r] > Len(times)
       THEN /\ vi' = [vi EXCEPT ![r] = vi[r] + 1]
            /\ pc' = [pc EXCEPT ![r] = "var"]
            /\ UNCHANGED <<ti, exc, out>>
       ELSE IF times[ti[r]][2] \notin selected_hours_ints(hours[r])
       THEN /\ ti' = [ti EXCEPT ![r] = ti[r] + 1]
            /\ UNCHANGED <<vi, pc, exc, out>>
       ELSE \E extracted \in BOOLEAN :
              IF extracted
              THEN /\ pc' = [pc EXCEPT ![r] = "save"]
                   /\ UNCHANGED <<vi, ti, exc, out>>
              ELSE /\ Raise(r, "ExtractError")
                   /\ Emit(r, <<Line("Error", <<>>)>>)
                   /\ UNCHANGED <<vi, ti>>
    /\ UNCHANGED <<HostVars, partFiles, grid, polygons, hours, variables, days, nc_path, requests, ncFiles,
                   outFiles, ds, fin, exit, count, gdal>>

\* save_raster, the rasterio write.
SaveRaster(r) ==
    LET path == ArtifactPath(argv[r], variables[r][vi[r]], ds[r].data.times[ti[r]], "tif")
    IN
    /\ pc[r] = "save"
    /\ \E written \in BOOLEAN :
         IF written
         THEN /\ outFiles' = outFiles \cup {path}
              /\ pc' = [pc EXCEPT ![r] = "gdal"]
              /\ UNCHANGED <<exc, out>>
         ELSE /\ Raise(r, "WriteError")
              /\ Emit(r, <<Line("Error", <<>>)>>)
              /\ UNCHANGED outFiles
    /\ UNCHANGED <<HostVars, partFiles, grid, polygons, hours, variables, days, nc_path, requests, ncFiles,
                   ds, vi, ti, fin, exit, count, gdal>>

\* save_raster, the GDAL NoData pass, then main prints the marker.
GdalNoData(r) ==
    LET path == ArtifactPath(argv[r], variables[r][vi[r]], ds[r].data.times[ti[r]], "tif")
    IN
    /\ pc[r] = "gdal"
    /\ \E passed \in {gdal[r] # "broken"} \cup {b \in BOOLEAN : gdal[r] = "untried"} :
         /\ gdal' = [gdal EXCEPT ![r] = IF passed THEN "works" ELSE "broken"]
         /\ Emit(r, (IF passed THEN <<>>
                     ELSE <<Line("No se pudo establecer NoData", <<>>)>>)
                    \o <<Line("RASTER_PATH", path)>>)
    /\ count' = [count EXCEPT ![r] = count[r] + 1]
    /\ ti' = [ti EXCEPT ![r] = ti[r] + 1]
    /\ pc' = [pc EXCEPT ![r] = "raster"]
    /\ UNCHANGED <<HostVars, partFiles, grid, polygons, hours, variables, days, nc_path, requests, ncFiles,
                   outFiles, ds, vi, exc, fin, exit>>

\* CreateVectorGrid without the early return on an empty intersection list.
CreateVectorGrid_noreturn(r) ==
    /\ pc[r] = "vector"
    /\ pc' = [pc EXCEPT ![r] = "vecloop"]
    /\ Emit(r, <<Line("Calculando intersecciones", <<>>)>>)
    /\ UNCHANGED <<HostVars, partFiles, grid, polygons, hours, variables, days, nc_path, requests,
                   ncFiles, outFiles, ds, vi, ti, exc, fin, exit, count, gdal>>

\* create_vector_grid, the intersection pass.
CreateVectorGrid(r) ==
    /\ pc[r] = "vector"
    /\ IF ~ds[r].data.overlap
       THEN /\ vi' = [vi EXCEPT ![r] = vi[r] + 1]
            /\ pc' = [pc EXCEPT ![r] = "var"]
            /\ Emit(r, <<Line("Calculando intersecciones", <<>>),
                          Line("No se encontraron intersecciones", <<>>)>>)
       ELSE /\ pc' = [pc EXCEPT ![r] = "vecloop"]
            /\ Emit(r, <<Line("Calculando intersecciones", <<>>)>>)
            /\ UNCHANGED vi
    /\ UNCHANGED <<HostVars, partFiles, grid, polygons, hours, variables, days, nc_path, requests, ncFiles,
                   outFiles, ds, ti, exc, fin, exit, count, gdal>>

\* create_vector_grid, one pass of "for time_idx, time_val".
VectorIter(r) ==
    LET times == ds[r].data.times
        path == ArtifactPath(argv[r], variables[r][vi[r]], times[ti[r]], "geojson")
    IN
    /\ pc[r] = "vecloop"
    /\ IF time_coord(ds[r].data) \notin ds[r].data.coords
       THEN /\ Raise(r, "KeyError")
            /\ Emit(r, <<Line("Error", <<>>)>>)
            /\ UNCHANGED <<vi, ti, outFiles, count>>
       ELSE IF ti[r] > Len(times)
       THEN /\ vi' = [vi EXCEPT ![r] = vi[r] + 1]
            /\ pc' = [pc EXCEPT ![r] = "var"]
            /\ UNCHANGED <<ti, exc, out, outFiles, count>>
       ELSE IF times[ti[r]][2] \notin selected_hours_ints(hours[r])
       THEN /\ ti' = [ti EXCEPT ![r] = ti[r] + 1]
            /\ UNCHANGED <<vi, pc, exc, out, outFiles, count>>
       ELSE \E outcome \in {"written", "ExtractError", "WriteError"} :
              IF outcome = "written"
              THEN /\ outFiles' = outFiles \cup {path}
                   /\ Emit(r, <<Line("VECTOR_PATH", path)>>)
                   /\ count' = [count EXCEPT ![r] = count[r] + 1]
                   /\ ti' = [ti EXCEPT ![r] = ti[r] + 1]
                   /\ UNCHANGED <<vi, pc, exc>>
              ELSE /\ Raise(r, outcome)
                   /\ Emit(r, <<Line("Error", <<>>)>>)
                   /\ UNCHANGED <<vi, ti, outFiles, count>>
    /\ UNCHANGED <<HostVars, partFiles, grid, polygons, hours, variables, days, nc_path, requests, ncFiles,
                   ds, fin, exit, gdal>>

\* main, the finally block, then the process ends.
Finally(r) ==
    LET f == ncFiles[nc_path[r]] IN
    /\ pc[r] = "finally"
    /\ ds' = [ds EXCEPT ![r].open = FALSE]
    /\ \E removable \in BOOLEAN :
         /\ ncFiles' = IF f.exists /\ removable
                       THEN [ncFiles EXCEPT ![nc_path[r]] = NoFile]
                       ELSE ncFiles
         /\ fin' = [fin EXCEPT ![r] = [ran |-> TRUE, closed |-> ds[r].opened,
                                       removed |-> f.exists /\ removable,
                                       removeFailed |-> f.exists /\ ~removable]]
         /\ Emit(r, IF f.exists /\ removable
                     THEN <<Line("Archivo temporal eliminado", <<>>)>> ELSE <<>>)
    /\ exit' = [exit EXCEPT ![r] = IF exc[r] = "" THEN 0 ELSE 1]
    /\ pc' = [pc EXCEPT ![r] = "exited"]
    /\ UNCHANGED <<HostVars, partFiles, grid, polygons, hours, variables, days, nc_path, requests, outFiles,
                   vi, ti, exc, count, gdal>>

PolygonWorker(r) ==
    \/ LoadInputs(r)
    \/ Retrieve(r)
    \/ OpenDataset(r)
    \/ AlignAndMask(r)
    \/ NextVariable(r)
    \/ RasterIter(r)
    \/ SaveRaster(r)
    \/ GdalNoData(r)
    \/ CreateVectorGrid(r)
    \/ VectorIter(r)
    \/ Finally(r)

\* -------------------------------------------------------- point worker
CsvPath(a) == <<a.out, "era5_results", a.start, a.end, "csv">>

\* era5_worker.main, "1. Cargar puntos" to the download area.
PointLoad(r) ==
    /\ pc[r] = "load" /\ argv[r].script = "points"
    /\ IF ~argv[r].fileOk
       THEN /\ Die(r, "InputError")
            /\ Emit(r, <<Line("Traceback", <<>>)>>)
            /\ UNCHANGED <<hours, variables, days>>
       ELSE /\ hours' = [hours EXCEPT ![r] = Split(argv[r].hours)]
            /\ variables' = [variables EXCEPT ![r] = Split(argv[r].vars)]
            /\ days' = [days EXCEPT ![r] = DateRange(argv[r].start, argv[r].end)]
            /\ pc' = [pc EXCEPT ![r] = "retrieve"]
            /\ UNCHANGED <<exc, exit, out>>
    /\ UNCHANGED <<HostVars, partFiles, grid, polygons, nc_path, requests, ncFiles, outFiles, ds, vi, ti, fin, count, gdal>>

\* era5_worker.main, "3. Descarga unica".
PointRetrieve(r) ==
    LET path == NcPath(argv[r])
        request == [variable |-> variables[r], day |-> days[r], time |-> hours[r],
                    start |-> argv[r].start, end |-> argv[r].end, target |-> path]
    IN
    /\ pc[r] = "retrieve" /\ argv[r].script = "points"
    /\ nc_path' = [nc_path EXCEPT ![r] = path]
    /\ requests' = [requests EXCEPT ![r] = Append(requests[r], request)]
    /\ \/ \E d \in PointDatasets(days[r]) \cup {BadDataset} :
            /\ ncFiles' = [ncFiles EXCEPT ![path] =
                              [exists |-> TRUE, writer |-> r, data |-> d]]
            /\ pc' = [pc EXCEPT ![r] = "ptopen"]
            /\ Emit(r, <<Line("Solicitando", <<>>)>>)
            /\ UNCHANGED <<exc, exit>>
       \/ \E partial \in BOOLEAN :
            /\ ncFiles' = IF partial
                          THEN [ncFiles EXCEPT ![path] =
                                  [exists |-> TRUE, writer |-> r, data |-> BadDataset]]
                          ELSE ncFiles
            /\ Die(r, "RetrievalError")
            /\ Emit(r, <<Line("Solicitando", <<>>), Line("Traceback", <<>>)>>)
    /\ UNCHANGED <<HostVars, partFiles, grid, polygons, hours, variables, days, outFiles, ds, vi, ti, fin, count, gdal>>

\* era5_worker.main, xr.open_dataset inside try / except ... return.
PointOpen(r) ==
    LET f == ncFiles[nc_path[r]] IN
    /\ pc[r] = "ptopen"
    /\ IF f.exists /\ f.data.readable
       THEN /\ ds' = [ds EXCEPT ![r] = [open |-> TRUE, opened |-> TRUE,
                                        writer |-> f.writer, data |-> f.data]]
            /\ pc' = [pc EXCEPT ![r] = "ptextract"]
            /\ Emit(r, <<Line("Extrayendo", <<>>)>>)
            /\ UNCHANGED <<exc, exit>>
       ELSE /\ exc' = [exc EXCEPT ![r] = "DecodeError"]
            /\ exit' = [exit EXCEPT ![r] = 0]
            /\ pc' = [pc EXCEPT ![r] = "exited"]
            /\ Emit(r, <<Line("Extrayendo", <<>>), Line("Error al abrir NetCDF", <<>>)>>)
            /\ UNCHANGED ds
    /\ UNCHANGED <<HostVars, partFiles, grid, polygons, hours, variables, days, nc_path, requests, ncFiles,
                   outFiles, vi, ti, fin, count, gdal>>

\* era5_worker.main, per-point extraction, CSV, close, remove, RESULT_PATH.
PointExtract(r) ==
    LET f == ncFiles[nc_path[r]] IN
    /\ pc[r] = "ptextract"
    /\ \E outcome \in {"done", "ExtractError", "WriteError", "RemoveError"} :
         /\ outFiles' = IF outcome \in {"done", "RemoveError"}
                        THEN outFiles \cup {CsvPath(argv[r])} ELSE outFiles
         /\ ds' = IF outcome \in {"done", "RemoveError"}
                  THEN [ds EXCEPT ![r].open = FALSE] ELSE ds
         /\ outcome = "done" => f.exists
         /\ ncFiles' = IF outcome = "done"
                       THEN [ncFiles EXCEPT ![nc_path[r]] = NoFile] ELSE ncFiles
         /\ IF outcome = "done"
            THEN /\ exit' = [exit EXCEPT ![r] = 0]
                 /\ pc' = [pc EXCEPT ![r] = "exited"]
                 /\ Emit(r, <<Line("RESULT_PATH", CsvPath(argv[r])),
                              Line("Proceso finalizado", <<>>)>>)
                 /\ UNCHANGED exc
            ELSE /\ Die(r, outcome)
                 /\ Emit(r, <<Line("Traceback", <<>>)>>)
    /\ UNCHANGED <<HostVars, partFiles, grid, polygons, hours, variables, days, nc_path, requests, vi, ti, fin, count, gdal>>

PointWorker(r) ==
    \/ PointLoad(r)
    \/ PointRetrieve(r)
    \/ PointOpen(r)
    \/ PointExtract(r)

\* ---------------------------------------------------- worker, stopped
\* The artifact a worker is in the middle of writing, <<>> when none:
\* save_raster (the rasterio write, then the GDAL pass on the same file),
\* gdf.to_file, df.to_csv.
WritingPath(r) ==
    IF pc[r] \in {"save", "gdal"}
    THEN ArtifactPath(argv[r], variables[r][vi[r]], ds[r].data.times[ti[r]], "tif")
    ELSE IF pc[r] = "vecloop" /\ ti[r] <= Len(ds[r].data.times)
            /\ ds[r].data.times[ti[r]][2] \in selected_hours_ints(hours[r])
    THEN ArtifactPath(argv[r], variables[r][vi[r]], ds[r].data.times[ti[r]], "geojson")
    ELSE IF pc[r] = "ptextract" THEN CsvPath(argv[r])
    ELSE <<>>

\* The worker process is terminated from outside at any point of its run:
\* nothing more is printed, no except or finally clause runs, the exit
\* status is that of the signal, and the file it was writing may stay on
\* disk cut short.
Kill(r) ==
    /\ pc[r] \notin {"idle", "rejected", "exited"}
    /\ pc' = [pc EXCEPT ![r] = "exited"]
    /\ exit' = [exit EXCEPT ![r] = -9]
    /\ exc' = [exc EXCEPT ![r] = "Killed"]
    /\ \E cut \in {FALSE} \cup {b \in BOOLEAN : WritingPath(r) # <<>>} :
         /\ partFiles' = IF cut THEN partFiles \cup {WritingPath(r)} ELSE partFiles
         /\ outFiles' = IF cut THEN outFiles \ {WritingPath(r)} ELSE outFiles
    /\ UNCHANGED <<HostVars, grid, polygons, hours, variables, days, nc_path, requests, ncFiles,
                   ds, vi, ti, fin, count, gdal, out>>

\* ------------------------------------------------------- host, reading
\* The lines the dialog has not read yet.
Pipe == IF dlg.process = 0 THEN <<>>
        ELSE SubSeq(out[dlg.process], dlg.rd + 1, Len(out[dlg.process]))

\* The QTimer started by execute_process fires: read_process_output begins.
TimerFire ==
    /\ dlg.timer /\ dlg.cb = "idle" /\ dlg.process # 0
    /\ dlg' = [dlg EXCEPT !.cb = "reading"]
    /\ UNCHANGED <<req, host, argv, pc, project, WorkerVars>>

\* read_process_output, one pass of "while True" with a line returned by
\* the (blocking) readline.
ReadLine ==
    /\ dlg.cb = "reading" /\ Pipe # <<>>
    /\ LET line == Head(Pipe) IN
       dlg' = [dlg EXCEPT
                 !.rd = dlg.rd + 1,
                 !.final_csv_path = IF line.tag = "RESULT_PATH" THEN line.path ELSE @,
                 !.output_rasters = IF line.tag = "RASTER_PATH"
                                    THEN Append(@, line.path) ELSE @,
                 !.output_vectors = IF line.tag = "VECTOR_PATH"
                                    THEN Append(@, line.path) ELSE @]
    /\ UNCHANGED <<req, host, argv, pc, project, WorkerVars>>

\* on_process_finished: what gets loaded for exit status 0.
LoadedOnSuccess ==
    IF dlg.current_mode = "points"
    THEN IF dlg.final_csv_path # <<>> /\ dlg.final_csv_path \in outFiles \cup partFiles
         THEN {dlg.final_csv_path} ELSE {}
    ELSE (Range(dlg.output_rasters) \cup Range(dlg.output_vectors))
             \cap (outFiles \cup partFiles)

\* ReadEOF loading the reported layers whatever the exit status.
ReadEOF_anystatus ==
    LET p == dlg.process IN
    /\ dlg.cb = "reading" /\ Pipe = <<>> /\ pc[p] = "exited"
    /\ project' = project \cup LoadedOnSuccess
    /\ host' = [host EXCEPT ![p] = IF exit[p] = 0 THEN "success" ELSE "error"]
    /\ dlg' = [dlg EXCEPT
                 !.cb = "idle", !.timer = FALSE,
                 !.finished = @ + 1,
                 !.loaded = LoadedOnSuccess,
                 !.progress_bar = FALSE, !.run_button = TRUE,
                 !.message = IF exit[p] = 0 THEN "Success" ELSE "Error",
                 !.output_rasters = IF dlg.current_mode = "polygons" THEN <<>> ELSE @,
                 !.output_vectors = IF dlg.current_mode = "polygons" THEN <<>> ELSE @]
    /\ UNCHANGED <<req, argv, pc, WorkerVars>>

\* ReadEOF without timer.stop().
ReadEOF_notimerstop ==
    LET p == dlg.process IN
    /\ dlg.cb = "reading" /\ Pipe = <<>> /\ pc[p] = "exited"
    /\ project' = IF exit[p] = 0 THEN project \cup LoadedOnSuccess ELSE project
    /\ host' = [host EXCEPT ![p] = IF exit[p] = 0 THEN "success" ELSE "error"]
    /\ dlg' = [dlg EXCEPT
                 !.cb = "idle",
                 !.finished = @ + 1,
                 !.loaded = IF exit[p] = 0 THEN LoadedOnSuccess ELSE {},
                 !.progress_bar = FALSE, !.run_button = TRUE,
                 !.message = IF exit[p] = 0 THEN "Success" ELSE "Error",
                 !.output_rasters = IF exit[p] = 0 /\ dlg.current_mode = "polygons"
                                    THEN <<>> ELSE @,
                 !.output_vectors = IF exit[p] = 0 /\ dlg.current_mode = "polygons"
                                    THEN <<>> ELSE @]
    /\ UNCHANGED <<req, argv, pc, WorkerVars>>

\* read_process_output, readline returns "" (the worker closed its stdout),
\* poll() is not None: timer.stop(), on_process_finished(), cleanup_ui().
ReadEOF ==
    LET p == dlg.process IN
    /\ dlg.cb = "reading" /\ Pipe = <<>> /\ pc[p] = "exited"
    /\ project' = IF exit[p] = 0 THEN project \cup LoadedOnSuccess ELSE project
    /\ host' = [host EXCEPT ![p] = IF exit[p] = 0 THEN "success" ELSE "error"]
    /\ dlg' = [dlg EXCEPT
                 !.cb = "idle", !.timer = FALSE,
                 !.finished = @ + 1,
                 !.loaded = IF exit[p] = 0 THEN LoadedOnSuccess ELSE {},
                 !.progress_bar = FALSE, !.run_button = TRUE,
                 !.message = IF exit[p] = 0 THEN "Success" ELSE "Error",
                 !.output_rasters = IF exit[p] = 0 /\ dlg.current_mode = "polygons"
                                    THEN <<>> ELSE @,
                 !.output_vectors = IF exit[p] = 0 /\ dlg.current_mode = "polygons"
                                    THEN <<>> ELSE @]
    /\ UNCHANGED <<req, argv, pc, WorkerVars>>

\* The markers a worker printed, by tag.
Marked(r, tag) == {out[r][i].path : i \in {j \in DOMAIN out[r] : out[r][j].tag = tag}}

\* process_points / process_polygons after the worker ended: the read loop
\* reached end of file, wait(), return code, layers loaded.
AlgorithmFinish(r) ==
    /\ req[r].launcher = "algorithm" /\ host[r] = "running" /\ pc[r] = "exited"
    /\ host' = [host EXCEPT ![r] = IF exit[r] = 0 THEN "success" ELSE "error"]
    /\ project' = IF exit[r] = 0
                  THEN project \cup ((Marked(r, "RESULT_PATH") \cup Marked(r, "RASTER_PATH")
                                      \cup Marked(r, "VECTOR_PATH"))
                                     \cap (outFiles \cup partFiles))
                  ELSE project
    /\ UNCHANGED <<req, argv, pc, dlg, WorkerVars>>

\* ------------------------------------------------------ specifications
Next ==
    \/ \E r \in Runs : DialogRun(r)
    \/ \E r \in Runs : AlgorithmRun(r)
    \/ \E r \in Runs : CliRun(r)
    \/ \E r \in Runs : PolygonWorker(r)
    \/ \E r \in Runs : PointWorker(r)
    \/ \E r \in Runs : AlgorithmFinish(r)
    \/ TimerFire
    \/ ReadLine
    \/ ReadEOF

Spec == Init /\ [][Next]_vars

\* Two direct invocations of the polygon worker that may run concurrently,
\* with equal or different date ranges, into the same output directory.
RaceRequests ==
    {[launcher |-> "cli", layer |-> "polygons", variables |-> <<"2m_temperature">>,
      hours |-> <<"00">>, output_dir |-> "out", start |-> d, end |-> d,
      format |-> f, fileOk |-> TRUE, crs |-> "EPSG:4326"] : d \in Days, f \in {"raster", "vector"}}

InitRace ==
    InitWith({[r \in Runs |-> IF r <= 2 THEN q[r] ELSE NoReq] :
                q \in [{1, 2} -> RaceRequests]})

NextRace ==
    \/ \E r \in Runs : CliRun(r)
    \/ \E r \in Runs : PolygonWorker(r)

SpecRace == InitRace /\ [][NextRace]_vars

\* --vars given as NetCDF short codes.
ShortCodeLists == {<<"t2m">>, <<"sf">>}

\* Direct invocations of the polygon worker on polygon files in any CRS.
OrderRequests ==
    {[launcher |-> "cli", layer |-> "polygons", variables |-> Join(vs),
      hours |-> Join(hs), output_dir |-> "out", start |-> 1, end |-> e, format |-> f,
      fileOk |-> ok, crs |-> c] :
        vs \in (SubLists(ERA5_VARIABLES) \ {<<>>}) \cup ShortCodeLists,
        hs \in SubLists(HostHours) \ {<<>>},
        e \in Days, f \in {"raster", "vector"}, ok \in BOOLEAN, c \in FileCrs}

InitOrder == InitWith({[r \in Runs |-> IF r = 1 THEN q ELSE NoReq] : q \in OrderRequests})

NextOrder ==
    \/ \E r \in Runs : CliRun(r)
    \/ \E r \in Runs : PolygonWorker(r)

SpecOrder == InitOrder /\ [][NextOrder]_vars

\* Two extractions started one after the other from the same dialog, at
\* least one of them on a point layer.
DialogRequests(layers) ==
    UNION {{[launcher |-> "dialog", layer |-> ly, variables |-> <<"2m_temperature">>,
             hours |-> <<"00">>, output_dir |-> "out", start |-> d, end |-> d,
             format |-> f, fileOk |-> TRUE, crs |-> "EPSG:4326"] :
               d \in IF ly = "polygons" THEN {1} ELSE Days, f \in Formats(ly)} :
           ly \in layers}

InitDialog ==
    InitWith({[r \in Runs |-> IF r = 1 THEN q1 ELSE IF r = 2 THEN q2 ELSE NoReq] :
                q1 \in DialogRequests({"points", "polygons"}),
                q2 \in DialogRequests({"points"})})

NextDialog ==
    \/ \E r \in Runs : DialogRun(r)
    \/ \E r \in Runs : PolygonWorker(r)
    \/ \E r \in Runs : PointWorker(r)
    \/ \E r \in Runs : Kill(r)
    \/ TimerFire
    \/ ReadLine
    \/ ReadEOF

SpecDialog == InitDialog /\ [][NextDialog]_vars

\* One invocation whose worker may be terminated from outside.
NextKill ==
    \/ \E r \in Runs : DialogRun(r)
    \/ \E r \in Runs : AlgorithmRun(r)
    \/ \E r \in Runs : PolygonWorker(r)
    \/ \E r \in Runs : PointWorker(r)
    \/ \E r \in Runs : Kill(r)
    \/ \E r \in Runs : AlgorithmFinish(r)
    \/ TimerFire
    \/ ReadLine
    \/ ReadEOF

InitKill ==
    InitWith({[r \in Runs |-> IF r = 1 THEN q ELSE NoReq] :
                q \in HostRequests("dialog") \cup HostRequests("algorithm")})

SpecKill == InitKill /\ [][NextKill]_vars

\* ------------------------------------------- one variable, cell by cell
\* Coordinates are counted in grid steps: the dataset's spacing is 1, a
\* cell is named by its centre <<lat, lon>>, and its footprint reaches half
\* a step to each side.  A region is described by the cells it touches
\* (touch) and the cells it overlaps with positive area (area).
MaxRows == 3
MaxCols == 2

NaN == -1
NoDataValue == -9999
DefaultRes == 1

\* ((lon + 180) % 360) - 180: the meridian of a longitude, in [-180, 180).
Wrap(lon) == ((lon + 180) % 360) - 180

\* The largest integer below which float32 holds every integer exactly,
\* plus one: a float64 value that float32 cannot hold.
BigValue == 16777217

\* The value the provider holds for a variable at timestamp t in the cell
\* centred at latitude lat on the meridian of lon; special says what the
\* cell at (1, 1) holds instead: a missing value, the sentinel itself, or a
\* value beyond float32's precision.
Val(t, lat, lon, special) ==
    IF lat = 1 /\ lon = 1 /\ special # "none"
    THEN CASE special = "nan" -> NaN
           [] special = "sentinel" -> NoDataValue
           [] OTHER -> BigValue
    ELSE 1000000 * t + 1000 * lat + Wrap(lon) + 180

Reverse(s) == [i \in 1..Len(s) |-> s[Len(s) + 1 - i]]
SeqMin(s) == CHOOSE x \in Range(s) : \A y \in Range(s) : x <= y
SeqMax(s) == CHOOSE x \in Range(s) : \A y \in Range(s) : x >= y
Abs(x) == IF x < 0 THEN -x ELSE x

\* np.any(mask, axis=1), np.any(mask, axis=0)
AnyInRow(mask) == [i \in DOMAIN mask |-> \E j \in DOMAIN mask[i] : mask[i][j]]
AnyInCol(mask) == [j \in DOMAIN mask[1] |-> \E i \in DOMAIN mask : mask[i][j]]

\* np.argmax of a boolean vector, counted from 1: the first True, or the
\* first position when there is none.
ArgMax(b) ==
    IF \E i \in DOMAIN b : b[i]
    THEN CHOOSE i \in DOMAIN b : b[i] /\ \A k \in 1..(i - 1) : ~b[k]
    ELSE 1

\* m[r1:r2, c1:c2], bounds counted from 1 and inclusive.
Slice(m, r1, r2, c1, c2) ==
    [i \in 1..(r2 - r1 + 1) |-> [j \in 1..(c2 - c1 + 1) |-> m[r1 + i - 1][c1 + j - 1]]]

\* clip_to_polygon_bounds that never trims rows after the last True one.
clip_untrimmed(data, mask, lons, lats) ==
    LET rows == AnyInRow(mask)
        cols == AnyInCol(mask)
        row_start == ArgMax(rows)
        row_end == Len(rows)
        col_start == ArgMax(cols)
        col_end == Len(cols) - (ArgMax(Reverse(cols)) - 1)
    IN IF ~(\E i \in DOMAIN rows : rows[i]) \/ ~(\E j \in DOMAIN cols : cols[j])
       THEN [data |-> data, mask |-> mask, lons |-> lons, lats |-> lats]
       ELSE [data |-> Slice(data, row_start, row_end, col_start, col_end),
             mask |-> Slice(mask, row_start, row_end, col_start, col_end),
             lons |-> SubSeq(lons, col_start, col_end),
             lats |-> SubSeq(lats, row_start, row_end)]

\* clip_to_polygon_bounds with the data sliced one column further right
\* than the mask.
clip_shifted(data, mask, lons, lats) ==
    LET rows == AnyInRow(mask)
        cols == AnyInCol(mask)
        row_start == ArgMax(rows)
        row_end == Len(rows) - (ArgMax(Reverse(rows)) - 1)
        col_start == ArgMax(cols)
        col_end == Len(cols) - (ArgMax(Reverse(cols)) - 1)
        shift == IF col_end < Len(cols) THEN 1 ELSE 0
    IN IF ~(\E i \in DOMAIN rows : rows[i]) \/ ~(\E j \in DOMAIN cols : cols[j])
       THEN [data |-> data, mask |-> mask, lons |-> lons, lats |-> lats]
       ELSE [data |-> Slice(data, row_start, row_end, col_start + shift, col_end + shift),
             mask |-> Slice(mask, row_start, row_end, col_start, col_end),
             lons |-> SubSeq(lons, col_start, col_end),
             lats |-> SubSeq(lats, row_start, row_end)]

clip_to_polygon_bounds(data, mask, lons, lats) ==
    LET rows == AnyInRow(mask)
        cols == AnyInCol(mask)
        row_start == ArgMax(rows)
        row_end == Len(rows) - (ArgMax(Reverse(rows)) - 1)
        col_start == ArgMax(cols)
        col_end == Len(cols) - (ArgMax(Reverse(cols)) - 1)
    IN IF ~(\E i \in DOMAIN rows : rows[i]) \/ ~(\E j \in DOMAIN cols : cols[j])
       THEN [data |-> data, mask |-> mask, lons |-> lons, lats |-> lats]
       ELSE [data |-> Slice(data, row_start, row_end, col_start, col_end),
             mask |-> Slice(mask, row_start, row_end, col_start, col_end),
             lons |-> SubSeq(lons, col_start, col_end),
             lats |-> SubSeq(lats, row_start, row_end)]

\* np.where(mask, data, np.nan)
Where(mask, data) ==
    [i \in DOMAIN mask |-> [j \in DOMAIN mask[i] |->
        IF mask[i][j] THEN data[i][j] ELSE NaN]]

\* abs(v[1] - v[0]) if len(v) > 1 else 0.1
Resolution(v) == IF Len(v) > 1 THEN Abs(v[2] - v[1]) ELSE DefaultRes

\* create_polygon_mask: the transform puts the raster's origin half a cell
\* west of min(lons) and half a cell north of max(lats), so pixel (i, j)
\* covers the cell centred i - 1 steps south of max(lats) and j - 1 steps
\* east of min(lons); rasterize(all_touched=True) burns every pixel whose
\* footprint a shape touches.
create_polygon_mask(touch, lons, lats) ==
    LET res_lon == Resolution(lons)
        res_lat == Resolution(lats)
        west == SeqMin(lons)
        north == SeqMax(lats)
    IN [i \in 1..Len(lats) |-> [j \in 1..Len(lons) |->
          <<north - (i - 1) * res_lat, west + (j - 1) * res_lon>> \in touch]]

\* .astype(np.float32) of an integer-valued float64 below 2^25: exact up to
\* 2^24, beyond it the nearest even integer, ties to the even mantissa.
astype_float32(x) ==
    IF Abs(x) <= 16777216 \/ x % 2 = 0 THEN x
    ELSE IF ((x - 1) \div 2) % 2 = 0 THEN x - 1 ELSE x + 1

\* save_raster that writes 0 where the data is NaN.
save_raster_zerofill(data, lons, lats) ==
    [north |-> SeqMax(lats), west |-> SeqMin(lons),
     res_lat |-> Resolution(lats), res_lon |-> Resolution(lons),
     height |-> Len(data), width |-> Len(data[1]),
     nodata |-> NoDataValue,
     band |-> [i \in DOMAIN data |-> [j \in DOMAIN data[i] |->
                 astype_float32(IF data[i][j] = NaN THEN 0 ELSE data[i][j])]]]

\* save_raster without the replacement of NaN by the NoData value.
save_raster_keepnan(data, lons, lats) ==
    [north |-> SeqMax(lats), west |-> SeqMin(lons),
     res_lat |-> Resolution(lats), res_lon |-> Resolution(lons),
     height |-> Len(data), width |-> Len(data[1]),
     nodata |-> NoDataValue,
     band |-> [i \in DOMAIN data |-> [j \in DOMAIN data[i] |->
                 astype_float32(data[i][j])]]]

\* save_raster: the file's georeferencing (north, west: the centre of pixel
\* (1, 1)), its shape, its NoData value and its band.
save_raster(data, lons, lats) ==
    [north |-> SeqMax(lats), west |-> SeqMin(lons),
     res_lat |-> Resolution(lats), res_lon |-> Resolution(lons),
     height |-> Len(data), width |-> Len(data[1]),
     nodata |-> NoDataValue,
     band |-> [i \in DOMAIN data |-> [j \in DOMAIN data[i] |->
                 astype_float32(IF data[i][j] = NaN THEN NoDataValue
                                ELSE data[i][j])]]]

\* for i, lat in enumerate(lats): for j, lon in enumerate(lons)
AllCells(h, w) == [k \in 1..(h * w) |-> <<((k - 1) \div w) + 1, ((k - 1) % w) + 1>>]

\* create_vector_grid, the intersection pass: the (i, j) whose box around
\* (lats[i], lons[j]) meets the region with positive area, in loop order.
pixel_coords(area, lons, lats) ==
    SelectSeq(AllCells(Len(lats), Len(lons)),
              LAMBDA c : <<lats[c[1]], lons[c[2]]>> \in area)

\* The piece of the region inside the box around (lat, lon).
Piece(lat, lon) == [inside |-> <<lat, lon>>]

\* VectorFeatures giving every feature the value of the first retained cell.
VectorFeatures_first(coords, data, lons, lats) ==
    [k \in DOMAIN coords |->
        [geometry |-> Piece(lats[coords[k][1]], lons[coords[k][2]]),
         value |-> data[coords[1][1]][coords[1][2]],
         lat_center |-> lats[coords[k][1]],
         lon_center |-> lons[coords[k][2]]]]

\* create_vector_grid, the features of one timestamp's layer.
VectorFeatures(coords, data, lons, lats) ==
    [k \in DOMAIN coords |->
        [geometry |-> Piece(lats[coords[k][1]], lons[coords[k][2]]),
         value |-> data[coords[k][1]][coords[k][2]],
         lat_center |-> lats[coords[k][1]],
         lon_center |-> lons[coords[k][2]]]]

Cells(h, w) == (1..h) \X (1..w)

\* The dataset as the provider delivers it (latitude descending, as ERA5
\* does, or ascending), the region, and the request's hours.
GridOn(fmt, lats, lons, touch, area, special, selected) ==
    LET times == TimeAxis({1}, {0, 12})
    IN [pc |-> "wrap", format |-> fmt, special |-> special,
        delivered |-> lons,
        latitude |-> lats, longitude |-> lons, times |-> times,
        data |-> [t \in DOMAIN times |-> [i \in DOMAIN lats |-> [j \in DOMAIN lons |->
                    Val(t, lats[i], lons[j], special)]]],
        touch |-> touch, area |-> area, selected |-> selected,
        mask |-> <<>>, ti |-> 0,
        clipped |-> <<>>, masked |-> <<>>, rasters |-> <<>>,
        coords |-> <<>>, layers |-> <<>>]

GridStart(fmt, h, w, descending, touch, area, special, selected) ==
    GridOn(fmt,
           IF descending THEN [i \in 1..h |-> h + 1 - i] ELSE [i \in 1..h |-> i],
           [j \in 1..w |-> j],
           touch, area, special, selected)

RunVars == <<req, host, argv, pc, hours, variables, days, nc_path, requests, ncFiles,
             outFiles, partFiles, ds, vi, ti, exc, fin, exit, count, gdal, out, dlg,
             project, polygons>>

\* The order sortby puts a coordinate in: ascending, equal values in their
\* old order.
SortPerm(v) ==
    CHOOSE p \in [DOMAIN v -> DOMAIN v] :
        /\ \A a, b \in DOMAIN v : a # b => p[a] # p[b]
        /\ \A a, b \in DOMAIN v :
              a < b => \/ v[p[a]] < v[p[b]]
                       \/ v[p[a]] = v[p[b]] /\ p[a] < p[b]

\* main, "Ajuste de longitud si es necesario": assign_coords, sortby.
AlignLongitude ==
    /\ grid.pc = "wrap"
    /\ grid' =
         IF SeqMax(grid.longitude) > 180
         THEN LET wrapped == [j \in DOMAIN grid.longitude |-> Wrap(grid.longitude[j])]
                  p == SortPerm(wrapped)
              IN [grid EXCEPT
                    !.pc = "align",
                    !.longitude = [k \in DOMAIN p |-> wrapped[p[k]]],
                    !.data = [t \in DOMAIN grid.data |->
                                [i \in DOMAIN grid.data[t] |->
                                   [k \in DOMAIN p |-> grid.data[t][i][p[k]]]]]]
         ELSE [grid EXCEPT !.pc = "align"]
    /\ UNCHANGED RunVars

\* main, "Asegurar que latitudes esten en orden ascendente": sortby.
AlignLatitude ==
    /\ grid.pc = "align"
    /\ grid' = IF grid.latitude[1] > grid.latitude[Len(grid.latitude)]
               THEN [grid EXCEPT !.pc = "mask",
                                 !.latitude = Reverse(grid.latitude),
                                 !.data = [t \in DOMAIN grid.data |->
                                             Reverse(grid.data[t])]]
               ELSE [grid EXCEPT !.pc = "mask"]
    /\ UNCHANGED RunVars

\* main, mask = create_polygon_mask(polygons_gdf, ds.longitude, ds.latitude).
PolygonMask ==
    /\ grid.pc = "mask"
    /\ grid' = [grid EXCEPT !.pc = grid.format, !.ti = 1,
                            !.mask = create_polygon_mask(grid.touch, grid.longitude,
                                                         grid.latitude)]
    /\ UNCHANGED RunVars

\* main, one pass of the raster loop: hour filter, data slice, clip, mask
\* applied, save_raster.
RasterPass ==
    /\ grid.pc = "raster"
    /\ grid' =
         IF grid.ti > Len(grid.times) THEN [grid EXCEPT !.pc = "done"]
         ELSE IF grid.times[grid.ti][2] \notin grid.selected
         THEN [grid EXCEPT !.ti = grid.ti + 1]
         ELSE LET c == clip_to_polygon_bounds(grid.data[grid.ti], grid.mask,
                                              grid.longitude, grid.latitude)
                  masked_data == Where(c.mask, c.data)
              IN [grid EXCEPT !.ti = grid.ti + 1,
                              !.clipped = c,
                              !.masked = masked_data,
                              !.rasters = Append(@, [time |-> grid.times[grid.ti],
                                                     file |-> save_raster(masked_data,
                                                                          c.lons, c.lats)])]
    /\ UNCHANGED RunVars

\* create_vector_grid up to the early return on an empty intersection list.
VectorGrid ==
    /\ grid.pc = "vector"
    /\ LET coords == pixel_coords(grid.area, grid.longitude, grid.latitude) IN
       grid' = [grid EXCEPT !.coords = coords,
                            !.pc = IF coords = <<>> THEN "done" ELSE "vecloop"]
    /\ UNCHANGED RunVars

\* create_vector_grid, one pass of the loop over the timestamps.
VectorLayer ==
    /\ grid.pc = "vecloop"
    /\ grid' =
         IF grid.ti > Len(grid.times) THEN [grid EXCEPT !.pc = "done"]
         ELSE IF grid.times[grid.ti][2] \notin grid.selected
         THEN [grid EXCEPT !.ti = grid.ti + 1]
         ELSE [grid EXCEPT !.ti = grid.ti + 1,
                           !.layers = Append(@, [time |-> grid.times[grid.ti],
                                                 features |->
                                                   VectorFeatures(grid.coords,
                                                                  grid.data[grid.ti],
                                                                  grid.longitude,
                                                                  grid.latitude)])]
    /\ UNCHANGED RunVars

\* Raster passes see every region, vector passes in addition regions that
\* only touch their westernmost southern cell along an edge.
InitGrid ==
    /\ RunInit({[r \in Runs |-> NoReq]})
    /\ \E h \in 1..MaxRows, w \in 1..MaxCols :
       \E touch \in SUBSET Cells(h, w), d \in BOOLEAN, sel \in {{0, 12}, {0}} :
          \/ \E special \in {"none", "nan", "sentinel", "big"} :
                grid = GridStart("raster", h, w, d, touch, touch, special, sel)
          \/ \E area \in {touch} \cup {touch \ {c} : c \in touch \cap {<<1, 1>>}} :
                grid = GridStart("vector", h, w, d, touch, area, "none", sel)

NextGrid ==
    \/ AlignLongitude
    \/ AlignLatitude
    \/ PolygonMask
    \/ RasterPass
    \/ VectorGrid
    \/ VectorLayer

SpecGrid == InitGrid /\ [][NextGrid]_vars

\* The alignment alone, on longitude axes in degrees: evenly spaced axes of
\* up to MaxLons columns that start at LonStarts with a spacing of LonSteps.
MaxLons == 3
LonStarts == {-180, 0, 90, 179, 180, 181, 359}
LonSteps == {1, 90, 180}

InitLon ==
    /\ RunInit({[r \in Runs |-> NoReq]})
    /\ \E h \in 1..2, n \in 1..MaxLons, d \in BOOLEAN, west \in LonStarts,
          step \in LonSteps :
          grid = GridOn("raster",
                        IF d THEN [i \in 1..h |-> h + 1 - i] ELSE [i \in 1..h |-> i],
                        [j \in 1..n |-> west + (j - 1) * step],
                        {}, {}, "none", {0, 12})

NextLon ==
    \/ AlignLongitude
    \/ AlignLatitude

SpecLon == InitLon /\ [][NextLon]_vars

\* ------------------------------------------------ raster file layout
\* Raster shapes: every height and width up to MaxSize, and the shapes around
\* the tiling threshold.
MaxSize == 70
TileSize == 256
RasterSizes == (1..MaxSize) \cup {TileSize - 1, TileSize, TileSize + 1}

Min(a, b) == IF a <= b THEN a ELSE b

\* save_raster, max_overview_level = min(height, width) // 2
max_overview_level(height, width) == Min(height, width) \div 2

\* save_raster, the levels kept by "if level < max_overview_level".
overview_levels(height, width) ==
    {level \in {2, 4, 8, 16, 32} : level < max_overview_level(height, width)}

\* overview_levels with the average-size guard left out.
build_levels_unguarded(height, width) == overview_levels(height, width)

\* save_raster, the levels handed to build_overviews:
\* "if overview_levels and min(height, width) > 16".
build_levels(height, width) ==
    IF overview_levels(height, width) # {} /\ Min(height, width) > 16
    THEN overview_levels(height, width) ELSE {}

\* save_raster, tiled=True if min(height, width) >= 256 else False
tiled(height, width) == Min(height, width) >= TileSize

\* save_raster, the rasterio part for one array shape: the block layout is
\* fixed at open; build_overviews may raise, which only prints a warning.
SaveRasterLayout ==
    /\ grid.pc = "shape"
    /\ \E built \in BOOLEAN :
         LET levels == build_levels(grid.height, grid.width)
             ok == built \/ levels = {}
         IN grid' = [pc |-> "written", height |-> grid.height, width |-> grid.width,
                     tiled |-> tiled(grid.height, grid.width),
                     requested |-> levels,
                     overviews |-> IF ok THEN levels ELSE {},
                     warned |-> ~ok]
    /\ UNCHANGED RunVars

InitLayout ==
    /\ RunInit({[r \in Runs |-> NoReq]})
    /\ \E h \in RasterSizes, w \in RasterSizes :
          grid = [pc |-> "shape", height |-> h, width |-> w]

NextLayout == SaveRasterLayout

SpecLayout == InitLayout /\ [][NextLayout]_vars

\* --------------------------------------------------------------- claims
IsPolygonRun(r) == argv[r].script = "polygons"
Terminated(r) == pc[r] = "exited"
ArtifactMarkers(r) == Marked(r, "RASTER_PATH") \cup Marked(r, "VECTOR_PATH")
ResultMarkers(r) == ArtifactMarkers(r) \cup Marked(r, "RESULT_PATH")
Printed(r, tag, path) == \E i \in DOMAIN out[r] : out[r][i] = Line(tag, path)

\* C1: whenever a polygon run that issued its data request has terminated,
\* its temporary dataset file no longer exists (unless the deletion itself
\* failed) and its dataset handle is closed -- also after a failed retrieval.
C1_FinalizedAtTermination ==
    \A r \in Runs :
        (IsPolygonRun(r) /\ Terminated(r) /\ requests[r] # <<>>) =>
            /\ ~ncFiles[nc_path[r]].exists \/ fin[r].removeFailed
            /\ ~ds[r].open

\* C2: a requested variable that the opened dataset holds under neither its
\* short code nor its long name gets a warning and no artifact; the other
\* requested variables are processed in full; and unless something else
\* fails the run ends with exit status 0.
AbsentFromDataset(name, data_vars) ==
    name \notin data_vars /\ VARIABLE_NAME_MAP(name) \notin data_vars

OtherFailures == {"ValueError", "KeyError", "ExtractError", "WriteError"}

ExpectedArtifacts(r, name) ==
    LET times == ds[r].data.times
        ext == IF argv[r].format = "vector" THEN "geojson" ELSE "tif"
    IN IF argv[r].format = "vector" /\ ~ds[r].data.overlap THEN {}
       ELSE {ArtifactPath(argv[r], name, times[k], ext) :
               k \in {j \in DOMAIN times : times[j][2] \in selected_hours_ints(hours[r])}}

C2_MissingVariableSkipped ==
    \A r \in Runs :
        (IsPolygonRun(r) /\ ds[r].opened) =>
            \A i \in DOMAIN variables[r] :
                AbsentFromDataset(variables[r][i], ds[r].data.vars) =>
                    /\ \A p \in ArtifactMarkers(r) : p[2] # variables[r][i]
                    /\ i < vi[r] => Printed(r, "no encontrada", <<variables[r][i]>>)
                    /\ (Terminated(r) /\ exc[r] \notin OtherFailures) =>
                          /\ exit[r] = 0
                          /\ \A j \in DOMAIN variables[r] :
                                ~AbsentFromDataset(variables[r][j], ds[r].data.vars) =>
                                    ExpectedArtifacts(r, variables[r][j])
                                        \subseteq ArtifactMarkers(r)

C2_Witness ==
    \E r \in Runs :
        /\ IsPolygonRun(r) /\ Terminated(r) /\ exit[r] = 0
        /\ \E i, j \in DOMAIN variables[r] :
              /\ i < j
              /\ AbsentFromDataset(variables[r][i], ds[r].data.vars)
              /\ Printed(r, "no encontrada", <<variables[r][i]>>)
              /\ \E p \in ArtifactMarkers(r) : p[2] = variables[r][j]

\* C3: an error while extracting the data of a resolved variable does not
\* abort the run: every requested variable is still visited and the run does
\* not end Failed.
C3_ExtractFailureIsLocal ==
    \A r \in Runs :
        (IsPolygonRun(r) /\ Terminated(r) /\ exc[r] = "ExtractError") =>
            /\ exit[r] = 0
            /\ vi[r] > Len(variables[r])

\* C4: a polygon run issues exactly one retrieval request and never a second
\* one; when the request fails the run ends with a nonzero exit status and
\* without any RASTER_PATH or VECTOR_PATH marker.
C4_SingleRetrieval ==
    \A r \in Runs :
        IsPolygonRun(r) =>
            /\ Len(requests[r]) <= 1
            /\ pc[r] \in {"load", "retrieve"} \/ exc[r] = "InputError"
                  \/ Len(requests[r]) = 1
            /\ exc[r] = "RetrievalError" =>
                  /\ Terminated(r) /\ exit[r] # 0
                  /\ ArtifactMarkers(r) = {}

C4_Witness ==
    \E r \in Runs :
        /\ IsPolygonRun(r) /\ Terminated(r) /\ exc[r] = "RetrievalError"
        /\ Len(requests[r]) = 1

\* C5: with a missing or unreadable geometry file, an empty variable
\* selection or an empty hour selection, no retrieval request is ever made
\* and the run fails -- launched by a host or invoked directly with an empty
\* --vars or --hours value.
BadInput(q) ==
    q.launcher # "none" /\ (~q.fileOk \/ q.variables = <<>> \/ q.hours = <<>>)

C5_NoRequestOnBadInput ==
    \A r \in Runs :
        (BadInput(req[r]) /\ req[r].layer # "points") =>
            /\ requests[r] = <<>>
            /\ Terminated(r) => exit[r] # 0

\* C6: a failed write of one artifact is only a warning: the run goes on
\* with the remaining artifacts and does not exit nonzero because of it.
C6_WriteFailureIsWarning ==
    \A r \in Runs :
        (IsPolygonRun(r) /\ exc[r] = "WriteError") =>
            /\ pc[r] # "finally"
            /\ Terminated(r) => exit[r] = 0

\* C7: in both workers an undecodable download is fatal: nonzero exit status
\* and no RESULT_PATH, RASTER_PATH or VECTOR_PATH marker.
C7_DecodeErrorIsFatal ==
    \A r \in Runs :
        (Terminated(r) /\ exc[r] = "DecodeError") =>
            /\ exit[r] # 0
            /\ ResultMarkers(r) = {}

\* C8: every retrieval request issued carries a non-empty hour list, a
\* non-empty variable list and start <= end (so a non-empty day list).
C8_RequestWindowValid ==
    \A r \in Runs :
        \A i \in DOMAIN requests[r] :
            /\ requests[r][i].time # <<>>
            /\ requests[r][i].variable # <<>>
            /\ requests[r][i].start <= requests[r][i].end
            /\ requests[r][i].day # {}

\* C9: two polygon runs in flight at the same time never use the same
\* temporary dataset path, and a run only ever opens the file it downloaded.
InFlight(r) == IsPolygonRun(r) /\ nc_path[r] # <<>> /\ ~Terminated(r)

C9_TempFilePerRun ==
    \A r1, r2 \in Runs :
        /\ (r1 # r2 /\ InFlight(r1) /\ InFlight(r2)) => nc_path[r1] # nc_path[r2]
        /\ ds[r1].opened => ds[r1].writer = r1

\* C10: while the worker is running, the dialog's polling callback never
\* waits for the worker: it is never inside readline with nothing to read
\* and the worker still alive.
CallbackWaits ==
    dlg.cb = "reading" /\ Pipe = <<>> /\ ~Terminated(dlg.process)

C10_PollingNeverWaits == ~CallbackWaits

\* C11: every path printed behind RASTER_PATH or VECTOR_PATH names a file
\* whose write has completed, and the host loads a path only if a marker of
\* a run with exit status 0 carried it; so when the worker is terminated at
\* an arbitrary point, no file cut short is ever loaded.
C11_OnlyCompleteArtifactsLoaded ==
    /\ \A r \in Runs : \A p \in ArtifactMarkers(r) : p \in outFiles /\ p \notin partFiles
    /\ \A p \in project :
          /\ p \notin partFiles
          /\ \E r \in Runs : /\ p \in ResultMarkers(r)
                             /\ Terminated(r) /\ exit[r] = 0
                             /\ host[r] = "success"
    /\ \A r \in Runs : exc[r] = "Killed" => host[r] # "success"

C11_Witness ==
    \E r \in Runs :
        /\ IsPolygonRun(r) /\ exc[r] = "Killed" /\ host[r] = "error"
        /\ ArtifactMarkers(r) # {}
        /\ partFiles # {}
        /\ project = {}

\* C13: in a vector run where no cell has a positive-area intersection with
\* the region, no vector file is written and no VECTOR_PATH marker is printed
\* for any variable or timestamp, the summary reports zero layers, and the
\* run ends with exit status 0.
C13_NoIntersectionNoVector ==
    \A r \in Runs :
        (IsPolygonRun(r) /\ argv[r].format = "vector" /\ ds[r].opened
           /\ ~ds[r].data.overlap) =>
            /\ Marked(r, "VECTOR_PATH") = {}
            /\ \A p \in outFiles : p[5] # "geojson"
            /\ count[r] = 0
            /\ (Terminated(r) /\ exc[r] # "ValueError") =>
                  /\ exit[r] = 0
                  /\ Printed(r, "Proceso finalizado", <<0>>)

C13_Witness ==
    \E r \in Runs :
        /\ IsPolygonRun(r) /\ argv[r].format = "vector" /\ ~ds[r].data.overlap
        /\ Terminated(r) /\ exit[r] = 0
        /\ Printed(r, "No se encontraron intersecciones", <<>>)
        /\ Len(variables[r]) = 2
        /\ \A i \in DOMAIN variables[r] : VarFound(variables[r][i], ds[r].data.vars)

\* C14: in a raster run every resolved variable gets exactly one raster, and
\* one RASTER_PATH marker, for each dataset timestamp whose hour of day is
\* among the requested hours, and none for any other timestamp (hours 00
\* and 12 over two days of 00/12 data: four per variable).
RequestedHours(r) == {HourInt(hours[r][i]) : i \in DOMAIN hours[r]}

RasterLines(r) == {i \in DOMAIN out[r] : out[r][i].tag = "RASTER_PATH"}

C14_OneRasterPerSelectedTimestamp ==
    \A r \in Runs :
        (IsPolygonRun(r) /\ argv[r].format = "raster" /\ ds[r].opened) =>
            /\ \A i \in RasterLines(r) :
                  LET p == out[r][i].path IN
                  /\ p \in outFiles
                  /\ \E k \in DOMAIN variables[r] :
                        /\ variables[r][k] = p[2]
                        /\ ~AbsentFromDataset(p[2], ds[r].data.vars)
                  /\ \E t \in DOMAIN ds[r].data.times :
                        /\ ds[r].data.times[t] = <<p[3], p[4]>>
                        /\ p[4] \in RequestedHours(r)
                  /\ \A j \in RasterLines(r) : out[r][j].path = p => j = i
            /\ count[r] = Cardinality(RasterLines(r))
            /\ (Terminated(r) /\ exc[r] = "") =>
                  \A k \in DOMAIN variables[r] :
                      ~AbsentFromDataset(variables[r][k], ds[r].data.vars) =>
                          \A t \in DOMAIN ds[r].data.times :
                              ds[r].data.times[t][2] \in RequestedHours(r) =>
                                  Printed(r, "RASTER_PATH",
                                          ArtifactPath(argv[r], variables[r][k],
                                                       ds[r].data.times[t], "tif"))

C14_Witness ==
    \E r \in Runs :
        /\ IsPolygonRun(r) /\ argv[r].format = "raster" /\ Terminated(r) /\ exit[r] = 0
        /\ RequestedHours(r) = {0}
        /\ Len(ds[r].data.times) = 4
        /\ Cardinality({i \in RasterLines(r) : out[r][i].path[2] = "snowfall"}) = 2

\* C15: in a vector run the intersection of the grid cells with the region
\* is computed exactly once per run, however many variables were requested,
\* and every emitted layer reuses it.
IntersectionPasses(r) ==
    Cardinality({i \in DOMAIN out[r] : out[r][i].tag = "Calculando intersecciones"})

C15_IntersectionOncePerRun ==
    \A r \in Runs :
        (IsPolygonRun(r) /\ argv[r].format = "vector") =>
            /\ IntersectionPasses(r) <= 1
            /\ Marked(r, "VECTOR_PATH") # {} => IntersectionPasses(r) = 1

\* The cells of a mask that are True, and the timestamps a pass selects.
TrueCells(m) == {c \in (DOMAIN m) \X (DOMAIN m[1]) : m[c[1]][c[2]]}
SelectedTimes == {t \in DOMAIN grid.times : grid.times[t][2] \in grid.selected}
RasterStarted == grid.pc \in {"raster", "done"} /\ grid.format = "raster"

\* C12: with a mask that is False everywhere, clip_to_polygon_bounds returns
\* data, mask and both coordinate vectors unchanged, and the pass still
\* emits one raster per selected timestamp, each covering the full grid with
\* every cell equal to NoData.
C12_EmptyMaskFullGridNoData ==
    (RasterStarted /\ TrueCells(grid.mask) = {}) =>
        /\ \A k \in DOMAIN grid.rasters :
              LET f == grid.rasters[k].file IN
              /\ f.height = Len(grid.latitude) /\ f.width = Len(grid.longitude)
              /\ f.north = SeqMax(grid.latitude) /\ f.west = SeqMin(grid.longitude)
              /\ \A i \in 1..f.height, j \in 1..f.width : f.band[i][j] = f.nodata
        /\ grid.rasters # <<>> =>
              /\ grid.clipped.mask = grid.mask
              /\ grid.clipped.lons = grid.longitude
              /\ grid.clipped.lats = grid.latitude
              /\ \E t \in SelectedTimes : grid.clipped.data = grid.data[t]
        /\ grid.pc = "done" =>
              /\ Len(grid.rasters) = Cardinality(SelectedTimes)
              /\ \A t \in SelectedTimes :
                    \E k \in DOMAIN grid.rasters : grid.rasters[k].time = grid.times[t]

C12_Witness ==
    /\ grid.pc = "done" /\ grid.format = "raster"
    /\ TrueCells(grid.mask) = {}
    /\ Len(grid.rasters) = 2
    /\ Len(grid.mask) = MaxRows /\ Len(grid.mask[1]) = MaxCols

\* C16: the layers of two distinct timestamps of one variable hold the same
\* retained cells with the same geometries and centres and differ only in
\* the value attribute and the timestamp in the file name; every feature's
\* value is the dataset value of that timestamp at the feature's own
\* (row, col).
C16_LayersShareGeometry ==
    (grid.pc \in {"vecloop", "done"} /\ grid.format = "vector") =>
        /\ \A a, b \in DOMAIN grid.layers :
              a # b =>
                /\ grid.layers[a].time # grid.layers[b].time
                /\ Len(grid.layers[a].features) = Len(grid.layers[b].features)
                /\ \A k \in DOMAIN grid.layers[a].features :
                      LET x == grid.layers[a].features[k]
                          y == grid.layers[b].features[k]
                      IN /\ x.geometry = y.geometry
                         /\ x.lat_center = y.lat_center
                         /\ x.lon_center = y.lon_center
        /\ \A a \in DOMAIN grid.layers :
              \E t \in SelectedTimes :
                /\ grid.times[t] = grid.layers[a].time
                /\ {<<x.lat_center, x.lon_center>> : x \in Range(grid.layers[a].features)}
                     = grid.area
                /\ Len(grid.layers[a].features) = Cardinality(grid.area)
                /\ \A k \in DOMAIN grid.layers[a].features :
                      LET x == grid.layers[a].features[k]
                          i == grid.coords[k][1]
                          j == grid.coords[k][2]
                      IN /\ x.value = grid.data[t][i][j]
                         /\ x.lat_center = grid.latitude[i]
                         /\ x.lon_center = grid.longitude[j]
                         /\ x.value = Val(t, x.lat_center, x.lon_center, grid.special)

C16_Witness ==
    /\ grid.pc = "done" /\ grid.format = "vector"
    /\ Len(grid.layers) = 2
    /\ Len(grid.layers[1].features) >= 2
    /\ grid.area # grid.touch
    /\ grid.layers[1].features[2].value # grid.layers[2].features[2].value

\* C17: for a mask with at least one True cell, clip_to_polygon_bounds
\* returns the minimal rectangle around the True cells -- its first and
\* last row and column each hold a True cell and no True cell lies outside
\* it -- and data, mask, latitudes and longitudes are cut by the same
\* bounds.
C17_ClipIsMinimalRectangle ==
    (RasterStarted /\ grid.rasters # <<>> /\ TrueCells(grid.mask) # {}) =>
        LET c == grid.clipped
            m == grid.mask
            hh == Len(c.mask)
            ww == Len(c.mask[1])
        IN /\ \E j \in 1..ww : c.mask[1][j]
           /\ \E j \in 1..ww : c.mask[hh][j]
           /\ \E i \in 1..hh : c.mask[i][1]
           /\ \E i \in 1..hh : c.mask[i][ww]
           /\ Len(c.data) = hh /\ Len(c.data[1]) = ww
           /\ Len(c.lats) = hh /\ Len(c.lons) = ww
           /\ \E r0 \in 0..(Len(m) - hh), c0 \in 0..(Len(m[1]) - ww), t \in SelectedTimes :
                 /\ \A i \in 1..hh, j \in 1..ww :
                       /\ c.mask[i][j] = m[r0 + i][c0 + j]
                       /\ c.data[i][j] = grid.data[t][r0 + i][c0 + j]
                 /\ \A i \in 1..hh : c.lats[i] = grid.latitude[r0 + i]
                 /\ \A j \in 1..ww : c.lons[j] = grid.longitude[c0 + j]
                 /\ \A x \in TrueCells(m) :
                       /\ r0 < x[1] /\ x[1] <= r0 + hh
                       /\ c0 < x[2] /\ x[2] <= c0 + ww

C17_Witness ==
    /\ grid.pc = "done" /\ grid.format = "raster"
    /\ Cardinality(TrueCells(grid.mask)) = 2
    /\ Len(grid.mask) = 3 /\ Len(grid.mask[1]) = 2
    /\ Len(grid.clipped.mask) = 2 /\ Len(grid.clipped.mask[1]) = 1
    /\ ~grid.mask[Len(grid.mask)][1] /\ ~grid.mask[Len(grid.mask)][2]

\* C18: clipping and then blanking the cells outside the mask gives the
\* same array as blanking them on the full grid and then cutting out the
\* rectangle around the mask's True cells: clipping never changes which
\* values are blanked.
BlankedFull(t) ==
    [i \in DOMAIN grid.mask |-> [j \in DOMAIN grid.mask[i] |->
        IF grid.mask[i][j] THEN grid.data[t][i][j] ELSE NaN]]

Lowest(S) == CHOOSE x \in S : \A y \in S : x <= y
Highest(S) == CHOOSE x \in S : \A y \in S : x >= y

CutAroundMask(a) ==
    LET T == TrueCells(grid.mask)
        rws == {x[1] : x \in T}
        cls == {x[2] : x \in T}
    IN IF T = {} THEN a
       ELSE [i \in 1..(Highest(rws) - Lowest(rws) + 1) |->
               [j \in 1..(Highest(cls) - Lowest(cls) + 1) |->
                   a[Lowest(rws) + i - 1][Lowest(cls) + j - 1]]]

C18_ClipAndMaskCommute ==
    (RasterStarted /\ grid.rasters # <<>>) =>
        \E t \in SelectedTimes : grid.masked = CutAroundMask(BlankedFull(t))

C18_Witness ==
    /\ grid.pc = "done" /\ grid.format = "raster"
    /\ Len(grid.masked) < Len(grid.mask) /\ Len(grid.masked[1]) < Len(grid.mask[1])
    /\ \E i \in DOMAIN grid.masked, j \in DOMAIN grid.masked[1] : grid.masked[i][j] = NaN
    /\ \E i \in DOMAIN grid.masked, j \in DOMAIN grid.masked[1] : grid.masked[i][j] > 0

\* C19: on the aligned dataset (latitude ascending) the mask is indexed like
\* a data slice: mask[i][j] is True exactly when the cell centred at
\* (latitude[i], longitude[j]) is touched by the region, so a raster keeps
\* exactly the values of the cells that meet the region.
C19_MaskIndexedLikeData ==
    grid.pc \in {"raster", "vector", "vecloop", "done"} =>
        \A i \in DOMAIN grid.mask, j \in DOMAIN grid.mask[1] :
            grid.mask[i][j] <=> <<grid.latitude[i], grid.longitude[j]>> \in grid.touch

\* C21: for every grid whose longitude axis holds a value above 180, after
\* alignment every longitude lies in [-180, 180), the axis is strictly
\* ascending, and every data column is still the column of its remapped
\* longitude.
C21_LongitudeAligned ==
    (grid.pc \in {"align", "mask"} /\ SeqMax(grid.delivered) > 180) =>
        /\ \A k \in DOMAIN grid.longitude :
              grid.longitude[k] >= -180 /\ grid.longitude[k] < 180
        /\ \A k, l \in DOMAIN grid.longitude :
              k < l => grid.longitude[k] < grid.longitude[l]
        /\ Len(grid.longitude) = Len(grid.delivered)
        /\ \A j \in DOMAIN grid.delivered :
              \E k \in DOMAIN grid.longitude : grid.longitude[k] = Wrap(grid.delivered[j])
        /\ \A t \in DOMAIN grid.data, i \in DOMAIN grid.latitude,
               k \in DOMAIN grid.longitude :
              grid.data[t][i][k] = Val(t, grid.latitude[i], grid.longitude[k], "none")

\* C22: the second NoData pass is not optional: no raster is reported
\* through RASTER_PATH for which that pass was skipped or failed.
C22_NoDataPassAsserted ==
    \A r \in Runs :
        /\ gdal[r] = "broken" => Marked(r, "RASTER_PATH") = {}
        /\ \A i \in DOMAIN out[r] :
              (out[r][i].tag = "RASTER_PATH" /\ i > 1) =>
                  out[r][i - 1].tag # "No se pudo establecer NoData"

\* C23: NoData round trip, as claimed: the written raster reports NoData =
\* -9999.0, the cells holding the sentinel are exactly those that were NaN
\* or already -9999.0 in the array passed to save_raster, and every other
\* cell keeps its value.
LastRaster == grid.rasters[Len(grid.rasters)].file

SentinelCellsMatch ==
    /\ LastRaster.nodata = NoDataValue
    /\ Len(LastRaster.band) = Len(grid.masked)
    /\ \A i \in DOMAIN grid.masked, j \in DOMAIN grid.masked[1] :
          LastRaster.band[i][j] = LastRaster.nodata
              <=> grid.masked[i][j] \in {NaN, NoDataValue}

IsFloat32(v) == Abs(v) <= 16777216 \/ v % 2 = 0

Stage(tag) ==
    CASE tag = "Cargando" -> 1
      [] tag \in {"Solicitando", "Descarga completada"} -> 2
      [] tag = "Variables disponibles" -> 3
      [] tag = "Mascara" -> 4
      [] tag \in {"Procesando", "no encontrada", "Calculando intersecciones",
                  "No se encontraron intersecciones", "No se pudo establecer NoData",
                  "RASTER_PATH", "VECTOR_PATH"} -> 5
      [] tag \in {"Proceso finalizado", "Archivo temporal eliminado"} -> 6
      [] OTHER -> 0

Occurrences(r, tag) == Cardinality({i \in DOMAIN out[r] : out[r][i].tag = tag})

\* C24: a polygon run goes through load, a single retrieval, alignment,
\* mask, emission and finalization in that order and never back; once the
\* request is issued the polygons are in EPSG:4326; the mask is computed once
\* at most, after the dataset was opened and aligned; every artifact marker
\* comes after the mask.
C24_FixedStepOrder ==
    \A r \in Runs : IsPolygonRun(r) =>
        /\ \A i, j \in DOMAIN out[r] :
             (i < j /\ Stage(out[r][i].tag) > 0 /\ Stage(out[r][j].tag) > 0)
                => Stage(out[r][i].tag) <= Stage(out[r][j].tag)
        /\ \A tag \in {"Cargando", "Solicitando", "Variables disponibles", "Mascara",
                       "Proceso finalizado"} : Occurrences(r, tag) <= 1
        /\ Len(requests[r]) <= 1
        /\ (requests[r] # <<>> \/ Occurrences(r, "Mascara") > 0
              \/ Occurrences(r, "Calculando intersecciones") > 0)
             => polygons[r].crs = "EPSG:4326"
        /\ \A j \in DOMAIN out[r] :
             out[r][j].tag \in {"Mascara", "RASTER_PATH", "VECTOR_PATH",
                                "Calculando intersecciones"}
               => \E i \in 1..j : /\ out[r][i].tag = "Mascara"
                                  /\ \E k \in 1..i : out[r][k].tag = "Variables disponibles"
        /\ (pc[r] \in {"var", "raster", "save", "gdal", "vector", "vecloop"})
             => Occurrences(r, "Mascara") = 1

\* A run whose polygons came in a projected CRS went through every step and
\* reported an artifact.
C24_Witness ==
    \E r \in Runs :
        /\ IsPolygonRun(r) /\ Terminated(r) /\ exit[r] = 0
        /\ argv[r].crs = "EPSG:32719"
        /\ ArtifactMarkers(r) # {}
        /\ Occurrences(r, "Archivo temporal eliminado") = 1

\* The long identifier and the short code of a variable named either way.
NameForms(name) == {name, VARIABLE_NAME_MAP(name), VARIABLE_REVERSE_MAP(name)}

\* C25: a requested variable is reported missing only when the dataset holds
\* neither its long identifier nor its short code, whichever form was
\* requested.
C25_SkippedOnlyWhenNoFormPresent ==
    \A r \in Runs : (IsPolygonRun(r) /\ ds[r].opened) =>
        \A i \in DOMAIN out[r] :
            out[r][i].tag = "no encontrada"
              => NameForms(out[r][i].path[1]) \cap ds[r].data.vars = {}

\* C26: a polygon run whose dataset has neither a "time" nor a "valid_time"
\* coordinate never ends with exit status 0, in raster and in vector mode,
\* whether or not a requested variable is in the dataset.
C26_NoTimeDimensionFails ==
    \A r \in Runs :
        (IsPolygonRun(r) /\ Terminated(r) /\ ds[r].opened
           /\ ds[r].data.coords \cap {"time", "valid_time"} = {})
          => exit[r] # 0

\* C27 as stated: the overviews of a written raster are exactly the levels of
\* {2,4,8,16,32} below half of min(h, w), and it is tiled exactly when
\* min(h, w) >= 256.
C27_OverviewsBelowHalf ==
    grid.pc = "written" =>
        /\ grid.overviews = {level \in {2, 4, 8, 16, 32} :
                               2 * level < Min(grid.height, grid.width)}
        /\ grid.tiled <=> Min(grid.height, grid.width) >= 256

\* C27, amended: overviews are requested for exactly the levels of
\* {2,4,8,16,32} below floor(min(h, w) / 2), and only when min(h, w) > 16;
\* the raster holds the requested levels unless the build failed with a
\* warning, and then it holds none; it is tiled exactly when min(h, w) >= 256.
C27_OverviewsBelowHalfFloorAbove16 ==
    grid.pc = "written" =>
        LET m == Min(grid.height, grid.width) IN
        /\ grid.requested = IF m > 16
                            THEN {level \in {2, 4, 8, 16, 32} : level < m \div 2}
                            ELSE {}
        /\ grid.overviews = IF grid.warned THEN {} ELSE grid.requested
        /\ grid.warned => grid.requested # {}
        /\ grid.tiled <=> m >= 256

\* A raster of an odd size above 16 written with its overviews, and a tiled one.
C27_Witness ==
    /\ grid.pc = "written"
    /\ Min(grid.height, grid.width) = 17
    /\ grid.overviews = {2, 4}
    /\ ~grid.tiled

\* C28: every pixel of a written raster that is not NoData holds the dataset
\* value of the cell centred where the raster's transform places the pixel:
\* row i (from 1) at latitude north - (i - 1) * res_lat, column j at longitude
\* west + (j - 1) * res_lon.
C28_PixelHoldsCellValue ==
    \A k \in DOMAIN grid.rasters :
        LET f == grid.rasters[k].file
            t == CHOOSE n \in DOMAIN grid.times : grid.times[n] = grid.rasters[k].time
        IN \A i \in 1..f.height, j \in 1..f.width :
             f.band[i][j] # NoDataValue =>
                f.band[i][j] = astype_float32(Val(t, f.north - (i - 1) * f.res_lat,
                                                  f.west + (j - 1) * f.res_lon,
                                                  grid.special))

\* C29: what the dialog loads when a run has ended was reported by the
\* worker of that run: every path loaded by on_process_finished is the path
\* of a marker printed by the process that just ended.
C29_LoadedWasReportedByThisRun ==
    (dlg.process # 0 /\ dlg.finished > 0) =>
        dlg.loaded \subseteq ResultMarkers(dlg.process)

\* Workers the dialog spawned and has not yet seen terminate.
ActiveWorkers == {r \in Runs : host[r] = "running"}

\* C30: the dialog has at most one active worker; while it is active the Run
\* button is disabled; once its termination is observed the timer is
\* stopped, on_process_finished has run exactly once for it, the Run button
\* is enabled and the progress bar hidden.
C30_OneWorkerAtATime ==
    /\ Cardinality(ActiveWorkers) <= 1
    /\ \A r \in ActiveWorkers : dlg.process = r /\ ~dlg.run_button /\ dlg.finished = 0
    /\ \A r \in Runs :
         (dlg.process = r /\ host[r] \in {"success", "error"}) =>
            /\ ~dlg.timer
            /\ dlg.finished = 1
            /\ dlg.run_button
            /\ ~dlg.progress_bar

\* A second worker of the same dialog was spawned, killed, and its
\* termination observed, after the first had ended.
C30_Witness ==
    \E r, p \in Runs :
        /\ r # p /\ host[r] \in {"success", "error"}
        /\ dlg.process = p /\ host[p] = "error" /\ exit[p] = -9
        /\ dlg.finished = 1 /\ dlg.run_button

====
